---- MODULE Spec2Model ----
(***************************************************************************)
(* Model of src/src/index.ts: createPool's closure state (the pool handle) *)
(* and the withConnection state machine, one record per outstanding        *)
(* invocation.  The driver (pool.getConnection, beginTransaction, commit,  *)
(* rollback, query, release, end) is external: each of its completions is  *)
(* an action that chooses the outcome the driver reports.                  *)
(***************************************************************************)
EXTENDS Integers, FiniteSets, Sequences, TLC

\* ---------------------------------------------------------------- bounds
NumInv == 2        \* invocations that may be outstanding at once
PoolSize == 1      \* physical connections the driver's pool owns
MaxDestroy == 2    \* destroy() calls in one behaviour
MaxArity == 2      \* largest declared arity (func.length) of a wrapped operation
MaxArgs == 2       \* most arguments a caller passes to a promisified operation
MaxCallbacks == 2  \* times the driver may invoke one completion callback

Invocations == 1..NumInv
Connections == 1..PoolSize
NoConnection == 0

\* ---------------------------------------------------------------- values
\* A JavaScript value: its identity, the lastError property an Error object
\* may carry (index.ts:175) and the shape the Connection facade gave it.
NoLastError == "none"
Val(id) == [id |-> id, lastError |-> NoLastError, shape |-> "plain"]

\* JavaScript truthiness, as used by `if (err)` (index.ts:157, 166, 174) and
\* `if (error)` (index.ts:109).
FalsyIds == {"undefined", "null", "zero"}
Truthy(v) == v.id \notin FalsyIds

Undefined == Val("undefined")
Null == Val("null")

\* new Error("Connection pool already destroyed.") (index.ts:155)
PoolDestroyedError == Val("Connection pool already destroyed.")

\* Errors the driver reports through its error-first callbacks: MysqlError
\* objects, hence truthy and extensible.
AcquireError == Val("eAcquire")
BeginError == Val("eBegin")
CommitError == Val("eCommit")
RollbackError == Val("eRollback")
QueryError == Val("eQuery")

\* What connection.release() throws when it fails.
ReleaseError == Val("eRelease")

\* What a caller-supplied unit of work may resolve with or throw: any value,
\* falsy ones included (`throw 0`, `Promise.reject()`).
UserValues == {Val("v1"), Undefined}
UserErrors == {Val("boom"), Val("zero"), Undefined}

\* Raw payloads of the driver's query callback (results, fields).
DriverResults == {"rowsA"}

ConvenienceMethods == {"query", "select", "insert", "update", "delete", "del"}
Methods == {"withConnection"} \cup ConvenienceMethods

\* wrapConnection: how each facade operation reshapes the driver's payload.
WrapConnection(m, raw) ==
  [id |-> raw, lastError |-> NoLastError,
   shape |-> CASE m = "query" -> "results+fields"
               [] m = "select" -> "rows+fields"
               [] OTHER -> "results"]

\* The facade operation each convenience method of the pool runs as its
\* unit of work (del runs connection.delete, index.ts:219).
FacadeOp(m) == IF m = "del" THEN "delete" ELSE m

\* Outcomes the unit of work of an invocation made by method m can have.
WorkValues(m) ==
  IF m = "withConnection" THEN UserValues
  ELSE {WrapConnection(FacadeOp(m), raw) : raw \in DriverResults}

WorkErrors(m) ==
  IF m = "withConnection" THEN UserErrors ELSE {QueryError}

\* ---------------------------------------------------------------- state
VARIABLES
  pool,          \* createPool's `pool`: "handle" or "undefined"
  endCalls,      \* number of pool.end() calls made
  destroyCalls,  \* number of destroy() calls made
  inv,           \* per invocation: the closure state of withConnection,
                 \* the calls it has made and what the driver answered
  adapter        \* one call of a promisify-wrapped operation, taken alone

vars == <<pool, endCalls, destroyCalls, inv, adapter>>

Pending == [state |-> "pending", value |-> Undefined]

\* An invocation before it is made.
Idle ==
  [pc |-> "idle", method |-> "withConnection", withTransaction |-> FALSE,
   connection |-> NoConnection, held |-> FALSE,
   err |-> Null, result |-> Undefined,
   promise |-> Pending, settleCalls |-> 0,
   nGetConnection |-> 0, nBegin |-> 0, nFunc |-> 0, nCommit |-> 0,
   nRollback |-> 0, nRelease |-> 0, releaseThrew |-> FALSE,
   acquired |-> "none", begun |-> "none", committed |-> "none",
   rolledBack |-> "none",
   work |-> [kind |-> "none", value |-> Undefined],
   afterDestroy |-> FALSE]

\* A promisify-wrapped operation before it is called: func.length, the
\* paramLength given to promisify (or none) and the caller's arguments.
AdapterMade(funcLength, paramLength, args) ==
  [pc |-> "made", funcLength |-> funcLength, paramLength |-> paramLength,
   args |-> args, list |-> <<>>,
   promise |-> Pending, callbacks |-> 0,
   first |-> [error |-> Null, result |-> Undefined],
   last |-> [error |-> Null, result |-> Undefined]]

NoParamLength == [given |-> FALSE, n |-> 0]
ParamLength(n) == [given |-> TRUE, n |-> n]

\* createPool has run; nothing has been called yet.
PoolCreated ==
  /\ pool = "handle"
  /\ endCalls = 0
  /\ destroyCalls = 0
  /\ inv = [i \in Invocations |-> Idle]

Init ==
  /\ PoolCreated
  /\ adapter = AdapterMade(0, NoParamLength, <<>>)

\* ------------------------------------------------- promise of withConnection
\* f(v) and r(e) of `new Promise((f, r) => ...)`: only the first call settles.
Resolve(rec, v) ==
  [rec EXCEPT !.settleCalls = @ + 1,
              !.promise = IF @.state = "pending"
                          THEN [state |-> "resolved", value |-> v] ELSE @]

Reject(rec, e) ==
  [rec EXCEPT !.settleCalls = @ + 1,
              !.promise = IF @.state = "pending"
                          THEN [state |-> "rejected", value |-> e] ELSE @]

\* ------------------------------------------------- the callback adapter
\* PromisifyCallback that takes every completion for a success.
PromisifyCallbackIgnoresError(error, value) ==
  [kind |-> "resolved", value |-> value]

\* The completion callback promisify hands to the driver (index.ts:108-110):
\* a truthy first argument rejects, anything else resolves with the second.
PromisifyCallback(error, value) ==
  IF Truthy(error) THEN [kind |-> "rejected", value |-> error]
  ELSE [kind |-> "resolved", value |-> value]

\* The bound of the loop that copies the caller's arguments (index.ts:105):
\* `paramLength || func.length - 1`, so an omitted paramLength and a
\* paramLength of 0 both fall back to func.length - 1.
PromisifyParamCount(funcLength, paramLength) ==
  LET n == IF paramLength.given /\ paramLength.n # 0 THEN paramLength.n
           ELSE funcLength - 1
  IN IF n > 0 THEN n ELSE 0

\* The argument list func.apply receives (index.ts:104-111): the first
\* arguments of the caller, undefined where the caller gave none, then the
\* completion callback.
PromisifyList(funcLength, paramLength, args) ==
  [k \in 1..PromisifyParamCount(funcLength, paramLength) |->
      IF k <= Len(args) THEN args[k] ELSE "undefined"] \o <<"callback">>

\* The wrapper promisify returns, called (index.ts:102-112).
AdapterCalled(a) ==
  [a EXCEPT !.pc = "called",
            !.list = PromisifyList(a.funcLength, a.paramLength, a.args)]

\* The driver invokes the completion callback with (error, result): f and r
\* of the adapter's promise settle it only the first time.
AdapterCompleted(a, error, result) ==
  LET out == PromisifyCallback(error, result)
  IN [a EXCEPT !.callbacks = @ + 1,
               !.first = IF a.callbacks = 0
                         THEN [error |-> error, result |-> result] ELSE @,
               !.last = [error |-> error, result |-> result],
               !.promise = IF @.state = "pending"
                           THEN [state |-> out.kind, value |-> out.value]
                           ELSE @]

\* ------------------------------------------------- steps of withConnection
\* Release forgotten: the callback ends without connection.release().
ReleaseForgotten(rec) == [rec EXCEPT !.pc = "done"]

\* connection.release() (index.ts:179), the last statement of the callback.
Release(rec) ==
  [rec EXCEPT !.nRelease = @ + 1, !.held = FALSE, !.pc = "done"]

\* ReleaseThrown with the release failure delivered as the invocation's
\* result.
ReleaseThrownSurfaces(rec, throws) ==
  IF throws /\ rec.pc = "done" /\ rec.nRelease >= 1
  THEN [rec EXCEPT !.releaseThrew = TRUE,
                   !.promise = [state |-> "rejected", value |-> ReleaseError]]
  ELSE rec

\* The end of a step of the callback, where connection.release() (index.ts:179)
\* may have thrown: the exception leaves the async callback, whose promise
\* nobody observes; f or r has been called before.  The driver is taken to
\* have the connection back either way.
ReleaseThrown(rec, throws) ==
  IF throws /\ rec.pc = "done" /\ rec.nRelease >= 1
  THEN [rec EXCEPT !.releaseThrew = TRUE]
  ELSE rec

\* promisify(connection.beginTransaction, 0)() (index.ts:160)
CallBegin(rec) == [rec EXCEPT !.nBegin = @ + 1, !.pc = "begin"]

\* func(wrapConnection(connection)) (index.ts:161)
CallFunc(rec) == [rec EXCEPT !.nFunc = @ + 1, !.pc = "work"]

\* CallCommit with the connection released before the commit is awaited.
CallCommitAfterRelease(rec) ==
  [rec EXCEPT !.nCommit = @ + 1, !.pc = "commit",
              !.nRelease = @ + 1, !.held = FALSE]

\* promisify(connection.commit, 0)() (index.ts:170)
CallCommit(rec) == [rec EXCEPT !.nCommit = @ + 1, !.pc = "commit"]

\* promisify(connection.rollback, 0)() (index.ts:167)
CallRollback(rec) == [rec EXCEPT !.nRollback = @ + 1, !.pc = "rollback"]

\* SecondTry with f(result) called before the commit is awaited.
SecondTryResolvesBeforeCommit(rec) ==
  IF Truthy(rec.err)
  THEN IF rec.withTransaction THEN CallRollback(rec)
       ELSE Release(Reject(rec, rec.err))
  ELSE IF rec.withTransaction THEN CallCommit(Resolve(rec, rec.result))
       ELSE Release(Resolve(rec, rec.result))

\* The second try block up to its first await (index.ts:165-172), and, when
\* nothing is awaited, on to release (index.ts:179).
SecondTry(rec) ==
  IF Truthy(rec.err)
  THEN IF rec.withTransaction THEN CallRollback(rec)
       ELSE Release(Reject(rec, rec.err))
  ELSE IF rec.withTransaction THEN CallCommit(rec)
       ELSE Release(Resolve(rec, rec.result))

\* CatchSecond with release() inside the try block, so that a throw skips it.
CatchSecondNoRelease(rec, e) ==
  [Reject(rec, IF Truthy(rec.err)
               THEN [e EXCEPT !.lastError = rec.err.id] ELSE e)
   EXCEPT !.pc = "done"]

\* CatchSecond without `e.lastError = err`.
CatchSecondNoLastError(rec, e) == Release(Reject(rec, e))

\* CatchSecond that lets the error escape without calling r(e).
CatchSecondNoReject(rec, e) == Release(rec)

\* catch (e) of the second try block, then release (index.ts:173-179).
CatchSecond(rec, e) ==
  Release(Reject(rec, IF Truthy(rec.err)
                      THEN [e EXCEPT !.lastError = rec.err.id] ELSE e))

\* After `await rollback` returned normally: r(err); release (index.ts:168).
RollbackDone(rec) == Release(Reject(rec, rec.err))

\* CommitDone calling f() without the result.
CommitDoneDropsResult(rec) == Release(Resolve(rec, Undefined))

\* After `await commit` returned normally: f(result); release (index.ts:171).
CommitDone(rec) == Release(Resolve(rec, rec.result))

\* CatchFirst that surfaces the error at once, without the rollback branch.
CatchFirstNoRollback(rec, e) ==
  Release(Reject([rec EXCEPT !.err = e], e))

\* catch (e) of the first try block (index.ts:162-164), then the second.
CatchFirst(rec, e) == SecondTry([rec EXCEPT !.err = e])

\* `result = await func(...)` returned v (index.ts:161), then the second try.
FuncReturned(rec, v) == SecondTry([rec EXCEPT !.result = v])

\* `await beginTransaction` returned normally: go on to func (index.ts:160-161).
BeginDone(rec) == CallFunc(rec)

\* FirstTry with beginTransaction called but not awaited.
FirstTryNoAwait(rec) ==
  IF rec.withTransaction THEN CallFunc(CallBegin(rec)) ELSE CallFunc(rec)

\* The first try block up to its first await (index.ts:158-161).
FirstTry(rec) ==
  IF rec.withTransaction THEN CallBegin(rec) ELSE CallFunc(rec)

\* OnGetConnection with `if (err) { r(err); }` and no return.
OnGetConnectionNoReturn(rec, error, c) ==
  IF Truthy(error)
  THEN FirstTry([Reject(rec, error) EXCEPT !.err = error, !.connection = c])
  ELSE FirstTry([rec EXCEPT !.err = error, !.connection = c, !.held = TRUE])

\* The callback given to pool.getConnection (index.ts:156-158).
OnGetConnection(rec, error, c) ==
  IF Truthy(error)
  THEN [Reject(rec, error) EXCEPT !.pc = "done"]
  ELSE FirstTry([rec EXCEPT !.err = error, !.connection = c, !.held = TRUE])

\* WithConnectionStart without the destroyed-pool guard.
WithConnectionStartNoGuard(rec, p) ==
  [rec EXCEPT !.nGetConnection = @ + 1, !.pc = "acquire"]

\* The promise executor of withConnection (index.ts:154-156).
WithConnectionStart(rec, p) ==
  IF p = "undefined"
  THEN [Reject(rec, PoolDestroyedError) EXCEPT !.pc = "done"]
  ELSE [rec EXCEPT !.nGetConnection = @ + 1, !.pc = "acquire"]

\* DestroyBody without `if (!pool) { return; }`.
DestroyBodyNoGuard(st) ==
  [pool |-> "undefined", endCalls |-> st.endCalls + 1]

\* destroy() (index.ts:185-189) on the pair (pool, number of pool.end() calls).
DestroyBody(st) ==
  IF st.pool = "undefined" THEN st
  ELSE [pool |-> "undefined", endCalls |-> st.endCalls + 1]

\* The transaction begun on the invocation's connection (index.ts:160) has
\* not been ended: no commit (index.ts:170) and no rollback (index.ts:167)
\* has completed successfully.
TransactionOpen(rec) ==
  rec.begun = "ok" /\ rec.committed # "ok" /\ rec.rolledBack # "ok"

\* getPool() (index.ts:184)
GetPool == pool

\* Connections the driver has on loan.
Loaned == {inv[i].connection : i \in {j \in Invocations : inv[j].held}}

\* ---------------------------------------------------------------- actions
\* withConnection(func, withTransaction) called by the application.
WithConnection(i, tx) ==
  /\ inv[i].pc = "idle"
  /\ inv' = [inv EXCEPT ![i] =
       WithConnectionStart([@ EXCEPT !.method = "withConnection",
                                     !.withTransaction = tx,
                                     !.afterDestroy = destroyCalls > 0], pool)]
  /\ UNCHANGED <<pool, endCalls, destroyCalls, adapter>>

\* query/select/insert/update/delete/del of the pool (index.ts:191-220):
\* withConnection with the default withTransaction = false.
Convenience(i, m) ==
  /\ inv[i].pc = "idle"
  /\ inv' = [inv EXCEPT ![i] =
       WithConnectionStart([@ EXCEPT !.method = m,
                                     !.withTransaction = FALSE,
                                     !.afterDestroy = destroyCalls > 0], pool)]
  /\ UNCHANGED <<pool, endCalls, destroyCalls, adapter>>

\* GetConnectionCallback with the destroyed-pool guard evaluated again when
\* the driver answers.
GetConnectionCallbackRechecksPool(i, error, c) ==
  /\ inv[i].pc = "acquire"
  /\ IF Truthy(error) THEN c = NoConnection
     ELSE c \in Connections \ Loaned
  /\ inv' = [inv EXCEPT ![i] =
       IF pool = "undefined"
       THEN [Reject([@ EXCEPT !.acquired =
                         IF Truthy(error) THEN "fail" ELSE "ok"],
                    PoolDestroyedError) EXCEPT !.pc = "done"]
       ELSE OnGetConnection([@ EXCEPT !.acquired =
                                IF Truthy(error) THEN "fail" ELSE "ok"], error, c)]
  /\ UNCHANGED <<pool, endCalls, destroyCalls, adapter>>

\* The driver answers pool.getConnection: an error, or a connection that is
\* not on loan.
GetConnectionCallback(i, error, c) ==
  /\ inv[i].pc = "acquire"
  /\ IF Truthy(error) THEN c = NoConnection
     ELSE c \in Connections \ Loaned
  /\ inv' = [inv EXCEPT ![i] =
       OnGetConnection([@ EXCEPT !.acquired =
                            IF Truthy(error) THEN "fail" ELSE "ok"], error, c)]
  /\ UNCHANGED <<pool, endCalls, destroyCalls, adapter>>

\* The driver completes beginTransaction.
BeginCallback(i, error) ==
  /\ inv[i].pc = "begin"
  /\ LET out == PromisifyCallback(error, Undefined)
         rec == [inv[i] EXCEPT !.begun =
                    IF out.kind = "rejected" THEN "fail" ELSE "ok"]
     IN inv' = [inv EXCEPT ![i] =
                  IF out.kind = "rejected" THEN CatchFirst(rec, out.value)
                  ELSE BeginDone(rec)]
  /\ UNCHANGED <<pool, endCalls, destroyCalls, adapter>>

\* The unit of work's promise resolves with v.
FuncResolves(i, v, throws) ==
  /\ inv[i].pc = "work"
  /\ v \in WorkValues(inv[i].method)
  /\ inv' = [inv EXCEPT ![i] = ReleaseThrown(
       FuncReturned([@ EXCEPT !.work = [kind |-> "resolved", value |-> v]], v),
       throws)]
  /\ UNCHANGED <<pool, endCalls, destroyCalls, adapter>>

\* The unit of work throws, or its promise rejects, with e.
FuncRejects(i, e, throws) ==
  /\ inv[i].pc = "work"
  /\ e \in WorkErrors(inv[i].method)
  /\ inv' = [inv EXCEPT ![i] = ReleaseThrown(
       CatchFirst([@ EXCEPT !.work = [kind |-> "rejected", value |-> e]], e),
       throws)]
  /\ UNCHANGED <<pool, endCalls, destroyCalls, adapter>>

\* The driver completes commit.
CommitCallback(i, error, throws) ==
  /\ inv[i].pc = "commit"
  /\ LET out == PromisifyCallback(error, Undefined)
         rec == [inv[i] EXCEPT !.committed =
                    IF out.kind = "rejected" THEN "fail" ELSE "ok"]
     IN inv' = [inv EXCEPT ![i] = ReleaseThrown(
                  IF out.kind = "rejected" THEN CatchSecond(rec, out.value)
                  ELSE CommitDone(rec), throws)]
  /\ UNCHANGED <<pool, endCalls, destroyCalls, adapter>>

\* The driver completes rollback.
RollbackCallback(i, error, throws) ==
  /\ inv[i].pc = "rollback"
  /\ LET out == PromisifyCallback(error, Undefined)
         rec == [inv[i] EXCEPT !.rolledBack =
                    IF out.kind = "rejected" THEN "fail" ELSE "ok"]
     IN inv' = [inv EXCEPT ![i] = ReleaseThrown(
                  IF out.kind = "rejected" THEN CatchSecond(rec, out.value)
                  ELSE RollbackDone(rec), throws)]
  /\ UNCHANGED <<pool, endCalls, destroyCalls, adapter>>

\* destroy() called by the application.
Destroy ==
  /\ destroyCalls < MaxDestroy
  /\ LET st == DestroyBody([pool |-> pool, endCalls |-> endCalls])
     IN /\ pool' = st.pool
        /\ endCalls' = st.endCalls
  /\ destroyCalls' = destroyCalls + 1
  /\ UNCHANGED <<inv, adapter>>

Next ==
  \/ \E i \in Invocations, tx \in BOOLEAN : WithConnection(i, tx)
  \/ \E i \in Invocations, m \in ConvenienceMethods : Convenience(i, m)
  \/ \E i \in Invocations, c \in Connections \cup {NoConnection} :
       \E error \in {Null, AcquireError} : GetConnectionCallback(i, error, c)
  \/ \E i \in Invocations, error \in {Null, BeginError} : BeginCallback(i, error)
  \/ \E i \in Invocations, v \in UserValues \cup UNION {WorkValues(m) : m \in Methods} :
       FuncResolves(i, v, FALSE)
  \/ \E i \in Invocations, e \in UserErrors \cup {QueryError} : FuncRejects(i, e, FALSE)
  \/ \E i \in Invocations, error \in {Null, CommitError} : CommitCallback(i, error, FALSE)
  \/ \E i \in Invocations, error \in {Null, RollbackError} : RollbackCallback(i, error, FALSE)
  \/ Destroy

Spec == Init /\ [][Next]_vars

\* Every driver callback eventually fires and every unit of work eventually
\* settles: the next completion invocation i waits for.
Completion(i) ==
  \/ \E c \in Connections \cup {NoConnection}, error \in {Null, AcquireError} :
       GetConnectionCallback(i, error, c)
  \/ \E error \in {Null, BeginError} : BeginCallback(i, error)
  \/ \E v \in UserValues \cup UNION {WorkValues(m) : m \in Methods} :
       FuncResolves(i, v, FALSE)
  \/ \E e \in UserErrors \cup {QueryError} : FuncRejects(i, e, FALSE)
  \/ \E error \in {Null, CommitError} : CommitCallback(i, error, FALSE)
  \/ \E error \in {Null, RollbackError} : RollbackCallback(i, error, FALSE)

LiveSpec == Spec /\ \A i \in Invocations : WF_vars(Completion(i))

\* A pool that queues a request until a connection is free instead of failing
\* it, and that nobody destroys.
QueuedCompletion(i) ==
  \/ \E c \in Connections : GetConnectionCallback(i, Null, c)
  \/ \E error \in {Null, BeginError} : BeginCallback(i, error)
  \/ \E v \in UserValues \cup UNION {WorkValues(m) : m \in Methods} :
       FuncResolves(i, v, FALSE)
  \/ \E e \in UserErrors \cup {QueryError} : FuncRejects(i, e, FALSE)
  \/ \E error \in {Null, CommitError} : CommitCallback(i, error, FALSE)
  \/ \E error \in {Null, RollbackError} : RollbackCallback(i, error, FALSE)

QueuedNext ==
  \/ \E i \in Invocations, tx \in BOOLEAN : WithConnection(i, tx)
  \/ \E i \in Invocations, m \in ConvenienceMethods : Convenience(i, m)
  \/ \E i \in Invocations : QueuedCompletion(i)

QueuedSpec ==
  /\ Init /\ [][QueuedNext]_vars
  /\ \A i \in Invocations : WF_vars(QueuedCompletion(i))

\* A driver whose connection.release() may throw (nobody destroys the pool).
ReleaseNext ==
  \/ \E i \in Invocations, tx \in BOOLEAN : WithConnection(i, tx)
  \/ \E i \in Invocations, m \in ConvenienceMethods : Convenience(i, m)
  \/ \E i \in Invocations, c \in Connections \cup {NoConnection} :
       \E error \in {Null, AcquireError} : GetConnectionCallback(i, error, c)
  \/ \E i \in Invocations, error \in {Null, BeginError} : BeginCallback(i, error)
  \/ \E i \in Invocations, throws \in BOOLEAN :
       \E v \in UserValues \cup UNION {WorkValues(m) : m \in Methods} :
         FuncResolves(i, v, throws)
  \/ \E i \in Invocations, throws \in BOOLEAN :
       \E e \in UserErrors \cup {QueryError} : FuncRejects(i, e, throws)
  \/ \E i \in Invocations, throws \in BOOLEAN :
       \E error \in {Null, CommitError} : CommitCallback(i, error, throws)
  \/ \E i \in Invocations, throws \in BOOLEAN :
       \E error \in {Null, RollbackError} : RollbackCallback(i, error, throws)

ReleaseSpec == Init /\ [][ReleaseNext]_vars

\* ------------------------------------------------- the adapter on its own
\* What the driver may pass to a completion callback.
CallbackErrors == {Null, QueryError}
CallbackResults == {Undefined, Val("okPacket")}

\* The arguments a caller may pass to the wrapper.
CallerArgs == {[k \in 1..n |-> IF k = 1 THEN "arg1" ELSE "argN"] : n \in 0..MaxArgs}

PromisifyInit ==
  /\ PoolCreated
  /\ \E funcLength \in 0..MaxArity, args \in CallerArgs :
       \E paramLength \in {NoParamLength} \cup {ParamLength(n) : n \in 0..MaxArity} :
         adapter = AdapterMade(funcLength, paramLength, args)

\* promisify(func, paramLength)(...args)
AdapterCall ==
  /\ adapter.pc = "made"
  /\ adapter' = AdapterCalled(adapter)
  /\ UNCHANGED <<pool, endCalls, destroyCalls, inv>>

\* The driver invokes the completion callback, possibly again.
AdapterCallback(error, result) ==
  /\ adapter.pc = "called"
  /\ adapter.callbacks < MaxCallbacks
  /\ adapter' = AdapterCompleted(adapter, error, result)
  /\ UNCHANGED <<pool, endCalls, destroyCalls, inv>>

PromisifyNext ==
  \/ AdapterCall
  \/ \E error \in CallbackErrors, result \in CallbackResults :
       AdapterCallback(error, result)

PromisifySpec == PromisifyInit /\ [][PromisifyNext]_vars

\* ---------------------------------------------------------------- claims
Rejected(e) == [state |-> "rejected", value |-> e]
Resolved(v) == [state |-> "resolved", value |-> v]

\* C1: an invocation whose pool.getConnection succeeded calls
\* connection.release() exactly once: never twice, not before the invocation
\* has finished its commit/rollback step, and once when it is done, whatever
\* begin, the unit of work, commit and rollback did.
C1_ReleaseExactlyOnce ==
  \A i \in Invocations :
    /\ inv[i].nRelease <= 1
    /\ inv[i].acquired = "ok" =>
         /\ inv[i].nRelease = (IF inv[i].pc = "done" THEN 1 ELSE 0)
         /\ inv[i].held = (inv[i].pc # "done")

C1_Witness ==
  \E i, j \in Invocations :
    /\ inv[i].withTransaction /\ inv[i].begun = "fail"
    /\ inv[i].rolledBack = "fail" /\ inv[i].nRelease = 1
    /\ inv[j].withTransaction /\ inv[j].work.kind = "resolved"
    /\ inv[j].committed = "fail" /\ inv[j].nRelease = 1

\* C2: in a transactional invocation whose unit of work fails, with whatever
\* value, rollback is invoked exactly once, commit is never invoked, and when
\* the rollback succeeds the promise rejects with the unit of work's error.
C2_WorkFailureRollsBack ==
  \A i \in Invocations :
    (inv[i].withTransaction /\ inv[i].work.kind = "rejected") =>
      /\ inv[i].nRollback = 1
      /\ inv[i].nCommit = 0
      /\ inv[i].rolledBack = "ok" => inv[i].promise = Rejected(inv[i].work.value)

\* C3: in a transactional invocation whose begin, unit of work and commit all
\* succeed, commit is invoked exactly once, rollback never, and the promise
\* resolves with the value the unit of work produced.
C3_SuccessCommits ==
  \A i \in Invocations :
    (/\ inv[i].withTransaction /\ inv[i].begun = "ok"
     /\ inv[i].work.kind = "resolved" /\ inv[i].committed = "ok") =>
      /\ inv[i].nCommit = 1
      /\ inv[i].nRollback = 0
      /\ inv[i].promise = Resolved(inv[i].work.value)

C3_Witness ==
  \E i \in Invocations :
    /\ inv[i].withTransaction /\ inv[i].begun = "ok"
    /\ inv[i].work = [kind |-> "resolved", value |-> Val("v1")]
    /\ inv[i].committed = "ok" /\ inv[i].pc = "done"

\* C4: an invocation with withTransaction = false (every convenience method
\* is one) never invokes beginTransaction, commit or rollback, and the unit
\* of work's outcome passes through: resolved with v gives resolved with v,
\* rejected with e gives rejected with e, for every v and e.
C4_NoTransactionPassThrough ==
  \A i \in Invocations :
    /\ inv[i].method \in ConvenienceMethods => ~inv[i].withTransaction
    /\ ~inv[i].withTransaction =>
         /\ inv[i].nBegin = 0 /\ inv[i].nCommit = 0 /\ inv[i].nRollback = 0
         /\ inv[i].work.kind = "resolved" =>
              inv[i].promise = Resolved(inv[i].work.value)
         /\ inv[i].work.kind = "rejected" =>
              inv[i].promise = Rejected(inv[i].work.value)

\* C5: when commit fails after a successful unit of work, the promise rejects
\* with the commit error; a transactional invocation's promise is resolved
\* only when its commit succeeded.
C5_CommitFailureSurfaces ==
  \A i \in Invocations :
    /\ (/\ inv[i].withTransaction /\ inv[i].work.kind = "resolved"
        /\ inv[i].committed = "fail") => inv[i].promise = Rejected(CommitError)
    /\ (inv[i].withTransaction /\ inv[i].promise.state = "resolved") =>
         inv[i].committed = "ok"

C5_Witness ==
  \E i \in Invocations :
    /\ inv[i].withTransaction
    /\ inv[i].work = [kind |-> "resolved", value |-> Val("v1")]
    /\ inv[i].committed = "fail" /\ inv[i].pc = "done"

\* C6: when rollback fails after an error from begin or from the unit of
\* work, the promise rejects with the rollback error and that error's
\* lastError is the error that triggered the rollback.
C6_RollbackFailureKeepsOriginal ==
  \A i \in Invocations :
    inv[i].rolledBack = "fail" =>
      /\ inv[i].begun = "fail" \/ inv[i].work.kind = "rejected"
      /\ inv[i].promise.state = "rejected"
      /\ inv[i].promise.value.id = RollbackError.id
      /\ inv[i].promise.value.lastError =
           (IF inv[i].begun = "fail" THEN BeginError.id
            ELSE inv[i].work.value.id)

C6_Witness ==
  \E i, j \in Invocations :
    /\ inv[i].rolledBack = "fail" /\ inv[i].begun = "fail"
    /\ inv[j].rolledBack = "fail"
    /\ inv[j].work = [kind |-> "rejected", value |-> Val("boom")]

\* C7: when pool.getConnection fails, the promise rejects with the
\* acquisition error and the invocation does nothing else: no release, no
\* beginTransaction, commit or rollback, and the unit of work is not invoked.
C7_AcquisitionFailure ==
  \A i \in Invocations :
    inv[i].acquired = "fail" =>
      /\ inv[i].promise = Rejected(AcquireError)
      /\ inv[i].pc = "done"
      /\ inv[i].nRelease = 0 /\ inv[i].nBegin = 0 /\ inv[i].nFunc = 0
      /\ inv[i].nCommit = 0 /\ inv[i].nRollback = 0

C7_Witness ==
  \E i \in Invocations :
    /\ inv[i].acquired = "fail" /\ inv[i].withTransaction
    /\ inv[i].nGetConnection = 1

\* C8: when beginTransaction fails, it is not called again, the unit of work
\* and commit are never invoked, rollback is attempted exactly once, the
\* connection is released, and when that rollback succeeds the promise
\* rejects with the begin error.
C8_BeginFailure ==
  \A i \in Invocations :
    inv[i].begun = "fail" =>
      /\ inv[i].nBegin = 1 /\ inv[i].nFunc = 0 /\ inv[i].nCommit = 0
      /\ inv[i].nRollback = 1
      /\ inv[i].pc \in {"rollback", "done"}
      /\ inv[i].pc = "done" => inv[i].nRelease = 1
      /\ inv[i].rolledBack = "ok" => inv[i].promise = Rejected(BeginError)

C8_Witness ==
  \E i \in Invocations :
    /\ inv[i].begun = "fail" /\ inv[i].rolledBack = "ok"
    /\ inv[i].pc = "done" /\ inv[i].nRelease = 1

\* C9: every withConnection or convenience-method call made after destroy()
\* rejects with the "Connection pool already destroyed." error and never
\* calls pool.getConnection, whatever happened before.
C9_DestroyedPoolRejects ==
  \A i \in Invocations :
    inv[i].afterDestroy =>
      /\ inv[i].promise = Rejected(PoolDestroyedError)
      /\ inv[i].pc = "done"
      /\ inv[i].nGetConnection = 0

C9_Witness ==
  \E i, j \in Invocations :
    /\ inv[i].afterDestroy /\ inv[i].method = "insert" /\ inv[i].pc = "done"
    /\ ~inv[j].afterDestroy /\ inv[j].pc = "done" /\ inv[j].nRelease = 1

\* C10: over any number of destroy() calls pool.end() is invoked exactly once,
\* by the first one, and getPool() returns undefined from then on (and the
\* handle before).
C10_DestroyIdempotent ==
  /\ endCalls = (IF destroyCalls > 0 THEN 1 ELSE 0)
  /\ GetPool = (IF destroyCalls > 0 THEN "undefined" ELSE "handle")

C10_Witness == destroyCalls >= 2 /\ endCalls = 1 /\ GetPool = "undefined"

\* C11: every withConnection call eventually settles its promise, and f/r are
\* called exactly once in all: the promise is pending until that one call and
\* holds one value or one error after it, on every path, given that every
\* driver callback fires and the unit of work settles.
C11_SettlesExactlyOnce ==
  /\ [](\A i \in Invocations :
         /\ inv[i].settleCalls <= 1
         /\ (inv[i].settleCalls = 1) = (inv[i].promise.state # "pending")
         /\ inv[i].pc = "done" => inv[i].settleCalls = 1)
  /\ \A i \in Invocations :
       (inv[i].pc # "idle") ~> (inv[i].promise.state # "pending")

C11_Witness ==
  \E i, j \in Invocations :
    /\ inv[i].rolledBack = "fail" /\ inv[i].promise.state = "rejected"
    /\ inv[i].settleCalls = 1
    /\ inv[j].committed = "ok" /\ inv[j].promise.state = "resolved"
    /\ inv[j].settleCalls = 1

\* C12: on a pool that queues requests, concurrently outstanding invocations
\* do not deadlock: every invocation that waits for a connection eventually
\* completes, and an invocation is given a connection only after every
\* invocation that had that connection before has released it.
C12_NoDeadlock ==
  /\ \A i \in Invocations : (inv[i].pc = "acquire") ~> (inv[i].pc = "done")
  /\ [][\A i \in Invocations :
          (inv[i].pc = "acquire" /\ inv'[i].acquired = "ok") =>
            \A j \in Invocations \ {i} :
              inv[j].connection = inv'[i].connection => inv[j].nRelease = 1]_vars

C12_Witness ==
  \E i, j \in Invocations :
    /\ i # j /\ Loaned = Connections
    /\ inv[i].held /\ inv[i].pc = "work"
    /\ inv[j].pc = "acquire"

\* Invocation i is between its acquisition and its release and works on
\* connection c: a begin, the unit of work, a commit or a rollback is under way.
Using(i, c) ==
  /\ inv[i].connection = c
  /\ inv[i].pc \in {"begin", "work", "commit", "rollback"}

\* C13: no physical connection is used by two invocations at once; an
\* invocation that has a begin, unit of work, commit or rollback under way
\* holds its connection and has not released it, and once it has released
\* the connection it issues nothing more.
C13_ExclusiveConnection ==
  /\ \A i, j \in Invocations, c \in Connections :
       (Using(i, c) /\ Using(j, c)) => i = j
  /\ \A i \in Invocations :
       /\ inv[i].pc \in {"begin", "work", "commit", "rollback"} =>
            /\ inv[i].connection \in Connections
            /\ inv[i].held /\ inv[i].nRelease = 0
       /\ inv[i].nRelease >= 1 => inv[i].pc = "done"

C13_Witness ==
  \E i, j \in Invocations :
    /\ i # j
    /\ inv[i].pc = "done" /\ inv[i].nRelease = 1 /\ inv[i].withTransaction
    /\ inv[j].connection = inv[i].connection
    /\ inv[j].pc = "commit"

\* C14: the unit of work is invoked exactly once per withConnection call (per
\* call that gets as far as invoking it: a destroyed pool, an acquisition
\* failure and a begin failure end the call before), and in a transactional
\* invocation its outcome alone decides between commit and rollback: a value
\* means commit and no rollback, an error means rollback and no commit.
C14_WorkOnceDecides ==
  \A i \in Invocations :
    /\ inv[i].nFunc <= 1
    /\ (/\ inv[i].acquired = "ok"
        /\ inv[i].withTransaction => inv[i].begun = "ok") => inv[i].nFunc = 1
    /\ (inv[i].withTransaction /\ inv[i].work.kind = "resolved") =>
         inv[i].nCommit = 1 /\ inv[i].nRollback = 0
    /\ (inv[i].withTransaction /\ inv[i].work.kind = "rejected") =>
         inv[i].nRollback = 1 /\ inv[i].nCommit = 0

\* C15: a transaction that was begun is ended by a commit or a rollback that
\* completes before the connection is released, also after a failed commit
\* or a failed rollback: no released connection has a transaction still open,
\* and no connection has more than one open transaction.
C15_TransactionEndsBeforeRelease ==
  /\ \A i \in Invocations :
       inv[i].nRelease >= 1 => ~TransactionOpen(inv[i])
  /\ \A i, j \in Invocations :
       (/\ TransactionOpen(inv[i]) /\ TransactionOpen(inv[j])
        /\ inv[i].connection = inv[j].connection) => i = j

\* C16: the steps of one invocation happen in order: begin is issued after
\* the acquisition, the unit of work is invoked after a transactional begin
\* has completed, commit or rollback is issued after the begin completed and
\* after the unit of work, if invoked, settled, and release is called after
\* the commit or rollback that was issued has completed.
C16_StepsInOrder ==
  \A i \in Invocations :
    /\ inv[i].nBegin >= 1 => inv[i].acquired = "ok"
    /\ inv[i].nFunc >= 1 =>
         /\ inv[i].acquired = "ok"
         /\ inv[i].withTransaction => inv[i].begun = "ok"
    /\ inv[i].nCommit + inv[i].nRollback >= 1 =>
         /\ inv[i].begun # "none"
         /\ inv[i].nFunc >= 1 => inv[i].work.kind # "none"
    /\ inv[i].nRelease >= 1 =>
         /\ inv[i].acquired = "ok"
         /\ inv[i].nFunc >= 1 => inv[i].work.kind # "none"
         /\ inv[i].nCommit >= 1 => inv[i].committed # "none"
         /\ inv[i].nRollback >= 1 => inv[i].rolledBack # "none"
         /\ inv[i].withTransaction => inv[i].nCommit + inv[i].nRollback = 1

C16_Witness ==
  \E i, j \in Invocations :
    /\ inv[i].nBegin = 1 /\ inv[i].nFunc = 1 /\ inv[i].nCommit = 1
    /\ inv[i].committed = "ok" /\ inv[i].nRelease = 1
    /\ inv[j].nBegin = 1 /\ inv[j].nFunc = 1 /\ inv[j].nRollback = 1
    /\ inv[j].rolledBack = "fail" /\ inv[j].nRelease = 1

\* Invocations i and j took the same course up to the release.
SameCourse(i, j) ==
  /\ inv[i].method = inv[j].method
  /\ inv[i].withTransaction = inv[j].withTransaction
  /\ inv[i].acquired = inv[j].acquired /\ inv[i].begun = inv[j].begun
  /\ inv[i].work = inv[j].work
  /\ inv[i].committed = inv[j].committed
  /\ inv[i].rolledBack = inv[j].rolledBack

\* C19: when connection.release() throws, the invocation's result is the one
\* it has without the throw: f or r has been called exactly once, the
\* promise holds what it holds for an invocation that took the same course
\* and whose release returned normally, and never the release error.
C19_ReleaseFailureNotSurfaced ==
  \A i \in Invocations :
    inv[i].releaseThrew =>
      /\ inv[i].settleCalls = 1
      /\ inv[i].promise.state # "pending"
      /\ inv[i].promise.value.id # ReleaseError.id
      /\ \A j \in Invocations :
           (/\ ~inv[j].releaseThrew /\ inv[j].pc = "done"
            /\ SameCourse(i, j)) => inv[i].promise = inv[j].promise

C19_Witness ==
  \E i, j \in Invocations :
    /\ inv[i].releaseThrew /\ ~inv[j].releaseThrew /\ inv[j].pc = "done"
    /\ SameCourse(i, j)
    /\ inv[i].committed = "ok" /\ inv[i].promise = Resolved(Val("v1"))

\* Invocation i has run all its steps: its promise is settled by one call of
\* f or r and, when it got a connection, it issued its begin, invoked the unit
\* of work unless the begin failed, issued its commit or rollback, and
\* released the connection once.
RanToCompletion(i) ==
  /\ inv[i].pc = "done" /\ inv[i].settleCalls = 1
  /\ inv[i].acquired = "ok" =>
       /\ inv[i].nRelease = 1
       /\ inv[i].nFunc = (IF inv[i].begun = "fail" THEN 0 ELSE 1)
       /\ inv[i].withTransaction =>
            inv[i].nBegin = 1 /\ inv[i].nCommit + inv[i].nRollback = 1

\* C20: destroy() touches no invocation that has passed the destroyed-pool
\* guard: a destroy() step leaves every invocation as it is, and an
\* invocation that has called pool.getConnection and finds the pool destroyed
\* meanwhile still runs all its remaining steps, releases its connection
\* once if it got one and settles its promise once.
C20_DestroySparesStarted ==
  /\ [][destroyCalls' # destroyCalls => inv' = inv]_vars
  /\ \A i \in Invocations :
       [](inv[i].pc = "done" /\ inv[i].nGetConnection = 1 => RanToCompletion(i))
  /\ \A i \in Invocations :
       (inv[i].nGetConnection = 1 /\ pool = "undefined") ~> RanToCompletion(i)

C20_Witness ==
  \E i \in Invocations :
    /\ pool = "undefined" /\ ~inv[i].afterDestroy
    /\ inv[i].nGetConnection = 1 /\ inv[i].withTransaction
    /\ inv[i].pc = "commit"

\* C17: the promise of a promisify-wrapped call is settled by the first
\* completion-callback invocation and by nothing else: rejected with the
\* callback's first argument when that is truthy, otherwise resolved with its
\* second argument; later invocations of the callback leave it as it is.
C17_AdapterSettlesOnce ==
  /\ (adapter.callbacks = 0) = (adapter.promise.state = "pending")
  /\ adapter.callbacks >= 1 =>
       adapter.promise = (IF Truthy(adapter.first.error)
                          THEN Rejected(adapter.first.error)
                          ELSE Resolved(adapter.first.result))

C17_Witness ==
  /\ adapter.callbacks >= 2
  /\ ~Truthy(adapter.first.error) /\ Truthy(adapter.last.error)
  /\ adapter.promise = Resolved(Val("okPacket"))

\* C18: with paramLength = 0 given to promisify, the wrapped operation is
\* invoked with exactly one argument, the completion callback, whatever its
\* declared arity.
C18_ExplicitZeroHonoured ==
  (/\ adapter.pc = "called"
   /\ adapter.paramLength = ParamLength(0)) => adapter.list = <<"callback">>

====
